---- MODULE Spec2Model ----
(***************************************************************************)
(* The scroll directive (ScrollDirective) of the virtualizer: binding to   *)
(* the part's parent element, deferred retries of update(), configuration  *)
(* pushed to the VirtualScroller, and the projection of the stored range   *)
(* (first, last) over the items through repeat().                          *)
(***************************************************************************)
EXTENDS Integers, Sequences, FiniteSets

\* ---------------------------------------------------------------- bounds
\* Host-initiated update() calls in one behaviour.
MaxHostUpdates == 2

\* ---------------------------------------------------------------- values
\* JavaScript's undefined (an omitted field, an out-of-bounds array read).
Undefined == "undefined"
Null == "null"

\* The nodes a part's parentNode can be: null, a DocumentFragment, an element.
Fragment == "fragment"
Elements == {"el1"}
Nodes == {Null, Fragment} \cup Elements

nodeType(n) == IF n \in Elements THEN 1 ELSE 11

\* The single ChildPart the directive instance lives in.
ThePart == "part"

ABC == <<"a", "b", "c">>
ABCDE == <<"a", "b", "c", "d", "e">>

\* Largest index a 'rangeChanged' detail carries (first, last in
\* -1..MaxIndex): the last index of the longest items collection, so a
\* window reaches every item of it and runs past the end of shorter ones.
MaxIndex == Len(ABCDE) - 1

\* A configuration is a record holding exactly the fields the caller supplied.
EmptyConfig == [f \in {} |-> 0]

Configs ==
  { EmptyConfig,
    [items |-> ABCDE, totalItems |-> 5, scrollToIndex |-> "sti1"],
    [items |-> ABC, totalItems |-> 0, renderItem |-> "r1",
     keyFunction |-> "k1", layout |-> "L1", scrollTarget |-> "window"],
    [totalItems |-> 7, scrollToIndex |-> "sti2", layout |-> Null],
    [items |-> ABC, keyFunction |-> "k1"] }

Has(config, f) == f \in DOMAIN config

\* config.f for a field holding a string token; undefined when omitted.
Field(config, f) == IF Has(config, f) THEN config[f] ELSE Undefined

\* Truthiness of a string-valued field (undefined and null are falsy).
Truthy(v) == v \notin {Undefined, Null}

defaultKeyFunction == "defaultKeyFunction"
defaultRenderItem == "defaultRenderItem"

\* Applying a key function to an item: the default is the identity, the
\* caller's k1 is item => 'k' + item.
ApplyKey(kf, item) == IF kf = defaultKeyFunction THEN item ELSE "k" \o item

\* The kinds of part a directive can be constructed on (lit's PartType).
PartTypes ==
  {"ATTRIBUTE", "CHILD", "PROPERTY", "BOOLEAN_ATTRIBUTE", "EVENT", "ELEMENT"}

VARIABLES
  partType,     \* part.type of the PartInfo given to the constructor
  instance,     \* "none" before construction, then "alive" or "threw"
  parentNode,   \* part.parentNode, changed by the host
  container,    \* this.container
  scroller,     \* this.scroller: 0 is null, n > 0 is engines[n]
  engines,      \* every VirtualScroller constructed so far
  listeners,    \* number of 'rangeChanged' listeners added to each element
  first,        \* this.first
  last,         \* this.last
  renderItem,   \* this.renderItem
  keyFunction,  \* this.keyFunction
  items,        \* this.items
  microtasks,   \* the microtask queue: retries scheduled by _initialize
  output,       \* the most recent update() return or setValue() push
  notified,     \* whether a 'rangeChanged' event has reached the listener
  nUpdates,     \* host-initiated update() calls so far
  hostFailed    \* host-initiated update() calls that failed to bind

scrollVars == <<partType, instance, parentNode, container, scroller, engines,
                listeners, first, last, renderItem, keyFunction, items,
                microtasks, output, notified, nUpdates, hostFailed>>

\* ------------------------------------------------- the React adapter
\* Elements rendered by React components, the events they fire, the
\* callbacks passed as props and the prop names of a component.
ReactNodes == {"n1", "n2"}
EventNames == {"e1", "e2"}
Callbacks == {"cb1", "cb2"}
PropNames == {"onE1", "onE2", "label"}

\* The events argument of createComponent: prop name to event name.
events == [onE1 |-> "e1", onE2 |-> "e2"]

VARIABLES
  listenedEvents, \* the WeakMap: per node whether it has a Map, and per
                  \* event the tracked handler (its position among the
                  \* node's listeners), 0 for none
  domListeners,   \* the handler objects added to each node for each event
  properties,     \* node[name] of the non-event prop
  supplied,       \* the listener last passed to addOrUpdateEventListener
  invoked         \* the callbacks run by the latest dispatched event

reactVars == <<listenedEvents, domListeners, properties, supplied, invoked>>

vars == <<scrollVars, reactVars>>

\* ------------------------------------------------------------ projection
\* this.items[i] of a JavaScript array: undefined beyond its end.
ItemAt(its, i) == IF i >= 0 /\ i < Len(its) THEN its[i + 1] ELSE Undefined

\* A projection that ignores the stored range and renders every item.
itemsToRender_All(its, f, l) == its

\* A loop that stops one short: i < this.last instead of i < this.last + 1.
itemsToRender_Exclusive(its, f, l) ==
  IF f >= 0 /\ l >= f
    THEN [k \in 1..(l - f) |-> ItemAt(its, f + k - 1)]
    ELSE <<>>

\* The loop of render(): items first..last when first >= 0 and last >= first.
itemsToRender(its, f, l) ==
  IF f >= 0 /\ l >= f
    THEN [k \in 1..(l - f + 1) |-> ItemAt(its, f + k - 1)]
    ELSE <<>>

\* repeat(items, keyFn, template): one keyed entry per element of the
\* sequence it is given, the template called with the element and its
\* position in that sequence.
repeat(its, keyFn, template) ==
  [k \in 1..Len(its) |->
     [key |-> ApplyKey(keyFn, its[k]), fn |-> template,
      item |-> its[k], index |-> k - 1]]

\* render() calling repeat(itemsToRender, this.renderItem) without the key
\* function: repeat then keys every entry by its position.
render_KeyByPosition(its, f, l, kf, ri) ==
  [k \in 1..Len(itemsToRender(its, f, l)) |->
     [key |-> k - 1, fn |-> ri,
      item |-> itemsToRender(its, f, l)[k], index |-> k - 1]]

\* The value render() returns for the given fields.
render(its, f, l, kf, ri) ==
  repeat(itemsToRender(its, f, l),
         IF Truthy(kf) THEN kf ELSE defaultKeyFunction, ri)

\* A render() that falls back to the default when the field is omitted.
StickyFn_ResetToDefault(config, f, current) ==
  IF Truthy(Field(config, f)) THEN config[f]
  ELSE IF f = "renderItem" THEN defaultRenderItem ELSE defaultKeyFunction

\* config.renderItem || this.renderItem, config.keyFunction || this.keyFunction
StickyFn(config, f, current) ==
  IF Truthy(Field(config, f)) THEN config[f] ELSE current

\* ------------------------------------------------------- configuration
\* new VirtualScroller({container}): the fields update() pushes start unset.
VirtualScroller(c) ==
  [container |-> c, items |-> <<>>, totalItems |-> 0, layout |-> Undefined,
   scrollTarget |-> Undefined, scrollToIndex |-> Undefined]

\* config.items || []
ConfigItems(config) == IF Has(config, "items") THEN config.items ELSE <<>>

\* config.totalItems || config.items?.length || 0
ConfigTotalItems(config) ==
  IF Has(config, "totalItems") /\ config.totalItems # 0
    THEN config.totalItems
    ELSE IF Has(config, "items") /\ Len(config.items) # 0
           THEN Len(config.items)
           ELSE 0

\* config.layout || null
ConfigLayout(config) ==
  IF Truthy(Field(config, "layout")) THEN config.layout ELSE Null

\* config.scrollTarget || this.container
ConfigScrollTarget(config, c) ==
  IF Truthy(Field(config, "scrollTarget")) THEN config.scrollTarget ELSE c

\* An unconditional scroller.scrollToIndex = config.scrollToIndex.
WritesScrollToIndex_Always(config) == TRUE

\* if (config.scrollToIndex)
WritesScrollToIndex(config) == Truthy(Field(config, "scrollToIndex"))

\* An update() that keeps the engine's items, layout and scrollTarget when
\* the configuration omits them.
ApplyConfig_Sticky(eng, config, c) ==
  [eng EXCEPT
     !.items = IF Has(config, "items") THEN config.items ELSE @,
     !.totalItems = ConfigTotalItems(config),
     !.layout = IF Truthy(Field(config, "layout")) THEN config.layout ELSE @,
     !.scrollTarget =
        IF Truthy(Field(config, "scrollTarget")) THEN config.scrollTarget ELSE @,
     !.scrollToIndex =
        IF WritesScrollToIndex(config)
          THEN Field(config, "scrollToIndex") ELSE @]

\* The engine after update() pushed config into it.
ApplyConfig(eng, config, c) ==
  [eng EXCEPT
     !.items = ConfigItems(config),
     !.totalItems = ConfigTotalItems(config),
     !.layout = ConfigLayout(config),
     !.scrollTarget = ConfigScrollTarget(config, c),
     !.scrollToIndex =
        IF WritesScrollToIndex(config)
          THEN Field(config, "scrollToIndex") ELSE @]

\* --------------------------------------------------------------- binding
\* A guard that never sees the engine: every update() runs _initialize.
AlreadyBound_Never == FALSE

\* A guard that trusts the engine only while the part is still attached to
\* an element, and otherwise runs _initialize again.
AlreadyBound_WhileAttached == scroller # 0 /\ parentNode \in Elements

\* this.scroller is truthy: update() skips _initialize.
AlreadyBound == scroller # 0

\* container && container.nodeType === 1
Bindable(n) == n # Null /\ nodeType(n) = 1

\* A failed attempt that schedules its retry twice.
Retries_Twice(p, config) ==
  <<[part |-> p, config |-> config], [part |-> p, config |-> config]>>

\* A failed attempt that schedules no retry.
Retries_None(p, config) == <<>>

\* The retries _initialize schedules when it cannot bind.
Retries(p, config) == <<[part |-> p, config |-> config]>>

\* No 'rangeChanged' event is dispatched while update() runs.
NoSync == [at |-> "none", first |-> 0, last |-> -1]

\* An update() that resets the window whenever it pushes a configuration.
StoredRange_ResetOnUpdate(sync, f, l) ==
  IF sync.at = "none" THEN <<0, -1>> ELSE <<sync.first, sync.last>>

\* An update() that projects over the range it found on entry.
StoredRange_ReadBeforePush(sync, f, l) == <<f, l>>

\* this.first and this.last when update() returns: update() and _initialize
\* assign neither, only a listener that ran inside update() has.
StoredRange(sync, f, l) ==
  IF sync.at = "none" THEN <<f, l>> ELSE <<sync.first, sync.last>>

\* A retry that hands the output of its update() to setValue().
Returned_RetryPushes(by) == IF by = "retry" THEN "setValue" ELSE "render"

\* What becomes of the render() output of an update() called by `by`: it
\* is returned to the caller (the microtask drops what it is returned).
Returned(by) == "render"

\* update(part, [config]) called by `by`, with `queue` the microtasks that
\* remain queued while it runs; sync is the 'rangeChanged' event the engine
\* dispatches from its items or totalItems setter during the call, if any.
update(p, config, by, queue, sync) ==
  LET node == parentNode
      range == StoredRange(sync, first, last)
      binds == ~AlreadyBound /\ Bindable(node)
      ok == AlreadyBound \/ binds
      c == IF AlreadyBound THEN container ELSE node
      ri == StickyFn(config, "renderItem", renderItem)
      kf == StickyFn(config, "keyFunction", keyFunction)
  IN /\ container' = c
     /\ sync.at # "none" => ok
     /\ IF ok
          THEN /\ engines' =
                    IF binds
                      THEN Append(engines, ApplyConfig(VirtualScroller(c), config, c))
                      ELSE [engines EXCEPT ![scroller] = ApplyConfig(@, config, c)]
               /\ scroller' = IF binds THEN Len(engines) + 1 ELSE scroller
               /\ listeners' =
                    IF binds THEN [listeners EXCEPT ![c] = @ + 1] ELSE listeners
               /\ items' = ConfigItems(config)
               /\ renderItem' = ri
               /\ keyFunction' = kf
               /\ microtasks' = queue
               /\ first' = range[1]
               /\ last' = range[2]
               /\ notified' = (notified \/ sync.at # "none")
               /\ output' = [by |-> by, part |-> p, config |-> config,
                             parent |-> node, slide |-> FALSE,
                             wroteScrollToIndex |-> WritesScrollToIndex(config),
                             sync |-> sync,
                             pushed |->
                               IF sync.at = "none" THEN <<>>
                               ELSE render(IF sync.at = "items"
                                             THEN items ELSE ConfigItems(config),
                                           sync.first, sync.last,
                                           keyFunction, renderItem),
                             returned |-> Returned(by),
                             out |-> render(ConfigItems(config), range[1],
                                            range[2], kf, ri)]
          ELSE /\ microtasks' = queue \o Retries(p, config)
               /\ output' = [by |-> by, part |-> p, config |-> config,
                             parent |-> node, slide |-> FALSE,
                             wroteScrollToIndex |-> FALSE,
                             sync |-> NoSync, pushed |-> <<>>,
                             returned |-> "nothing", out |-> <<>>]
               /\ UNCHANGED <<engines, scroller, listeners, items,
                              renderItem, keyFunction, first, last,
                              notified>>
     /\ UNCHANGED <<parentNode, partType, instance>>
     /\ UNCHANGED reactVars

\* A constructor without the part.type check.
ConstructorThrows_Never(type) == FALSE

\* if (part.type !== PartType.CHILD) throw new Error(...)
ConstructorThrows(type) == type # "CHILD"

\* new ScrollDirective(part): the instance exists unless the constructor
\* throws.
Construct ==
  /\ instance = "none"
  /\ instance' = IF ConstructorThrows(partType) THEN "threw" ELSE "alive"
  /\ UNCHANGED <<partType, parentNode, container, scroller, engines,
                 listeners, first, last, renderItem, keyFunction, items,
                 microtasks, output, notified, nUpdates, hostFailed>>
  /\ UNCHANGED reactVars

\* The host renders the template: update() with a configuration.
HostUpdate ==
  /\ instance = "alive"
  /\ nUpdates < MaxHostUpdates
  /\ \E config \in Configs :
       /\ update(ThePart, config, "host", microtasks, NoSync)
       /\ nUpdates' = nUpdates + 1
       /\ hostFailed' =
            IF AlreadyBound \/ Bindable(parentNode)
              THEN hostFailed ELSE hostFailed + 1

\* The microtask Promise.resolve().then(() => this.update(part, [config])).
RunRetry ==
  /\ instance = "alive"
  /\ microtasks # <<>>
  /\ update(Head(microtasks).part, Head(microtasks).config, "retry",
            Tail(microtasks), NoSync)
  /\ UNCHANGED <<nUpdates, hostFailed>>

\* The setters of the engine's items and totalItems at which it may
\* dispatch 'rangeChanged' before update() returns.
SyncPoints == {"items", "totalItems"}

\* The windows such an event carries: an inner one, an empty one and the
\* widest one.
SyncRanges == {<<1, 2>>, <<2, 1>>, <<0, MaxIndex>>}

\* A host update() during which the engine dispatches 'rangeChanged' from
\* one of its setters: the listener runs inside the call.
HostUpdateReentrant ==
  /\ instance = "alive"
  /\ nUpdates < MaxHostUpdates
  /\ \E config \in Configs, at \in SyncPoints, r \in SyncRanges :
       /\ update(ThePart, config, "host", microtasks,
                 [at |-> at, first |-> r[1], last |-> r[2]])
       /\ nUpdates' = nUpdates + 1
       /\ hostFailed' = hostFailed

\* A retried update() during which the engine dispatches 'rangeChanged'.
RunRetryReentrant ==
  /\ instance = "alive"
  /\ microtasks # <<>>
  /\ \E at \in SyncPoints, r \in SyncRanges :
       update(Head(microtasks).part, Head(microtasks).config, "retry",
              Tail(microtasks), [at |-> at, first |-> r[1], last |-> r[2]])
  /\ UNCHANGED <<nUpdates, hostFailed>>

\* A listener that drops a notification repeating the stored range.
RangeChanged_Coalescing ==
  /\ instance = "alive"
  /\ container \in Elements
  /\ listeners[container] > 0
  /\ \E f, l \in -1..MaxIndex :
       /\ first' = f
       /\ last' = l
       /\ output' =
            IF f = first /\ l = last
              THEN output
              ELSE [by |-> "listener", part |-> ThePart,
                    config |-> EmptyConfig, parent |-> Null,
                    slide |-> FALSE, wroteScrollToIndex |-> FALSE,
                    sync |-> [at |-> "event", first |-> f, last |-> l],
                    pushed |-> <<>>, returned |-> "setValue",
                    out |-> render(items, f, l, keyFunction, renderItem)]
  /\ notified' = TRUE
  /\ UNCHANGED <<partType, instance, parentNode, container, scroller,
                 engines, listeners, renderItem, keyFunction, items,
                 microtasks, nUpdates, hostFailed>>
  /\ UNCHANGED reactVars

\* The 'rangeChanged' listener, once per listener added to the container.
RangeChanged ==
  /\ instance = "alive"
  /\ container \in Elements
  /\ listeners[container] > 0
  /\ \E f, l \in -1..MaxIndex :
       /\ first' = f
       /\ last' = l
       /\ output' = [by |-> "listener", part |-> ThePart,
                     config |-> EmptyConfig, parent |-> Null,
                     slide |-> /\ output.by = "listener"
                               /\ f = first + 1
                               /\ l = last + 1,
                     wroteScrollToIndex |-> FALSE,
                     sync |-> [at |-> "event", first |-> f, last |-> l],
                     pushed |-> <<>>,
                     returned |-> "setValue",
                     out |-> render(items, f, l, keyFunction, renderItem)]
  /\ notified' = TRUE
  /\ UNCHANGED <<partType, instance, parentNode, container, scroller,
                 engines, listeners, renderItem, keyFunction, items,
                 microtasks, nUpdates, hostFailed>>
  /\ UNCHANGED reactVars

\* The host attaches, detaches or moves the part.
SetParent ==
  /\ \E n \in Nodes : n # parentNode /\ parentNode' = n
  /\ UNCHANGED <<partType, instance, container, scroller, engines,
                 listeners, first, last, renderItem, keyFunction, items,
                 microtasks, output, notified, nUpdates, hostFailed>>
  /\ UNCHANGED reactVars

\* The adapter's module state and the DOM before any component rendered.
ReactStart ==
  /\ listenedEvents =
       [n \in ReactNodes |->
          [has |-> FALSE, events |-> [e \in EventNames |-> 0]]]
  /\ domListeners = [n \in ReactNodes |-> [e \in EventNames |-> <<>>]]
  /\ properties = [n \in ReactNodes |-> Undefined]
  /\ supplied = [n \in ReactNodes |-> [e \in EventNames |-> Undefined]]
  /\ invoked = [node |-> "n1", event |-> "e1", called |-> <<>>]

Init ==
  /\ ReactStart
  /\ partType \in PartTypes
  /\ instance = "none"
  /\ parentNode \in Nodes
  /\ container = Null
  /\ scroller = 0
  /\ engines = <<>>
  /\ listeners = [n \in Elements |-> 0]
  /\ first = 0
  /\ last = -1
  /\ renderItem = defaultRenderItem
  /\ keyFunction = defaultKeyFunction
  /\ items = <<>>
  /\ microtasks = <<>>
  /\ output = [by |-> "none", part |-> ThePart, config |-> EmptyConfig,
               parent |-> parentNode, slide |-> FALSE,
               wroteScrollToIndex |-> FALSE,
               sync |-> NoSync, pushed |-> <<>>,
               returned |-> "none", out |-> <<>>]
  /\ notified = FALSE
  /\ nUpdates = 0
  /\ hostFailed = 0

Next == Construct \/ HostUpdate \/ RunRetry \/ RangeChanged \/ SetParent

Spec == Init /\ [][Next]_vars

\* The binding protocol alone: 'rangeChanged' only reaches the listener of
\* a bound instance, so the behaviours up to binding are those of Next.
BindNext == Construct \/ HostUpdate \/ RunRetry \/ SetParent

\* Microtasks always run: the retry queue is drained by the event loop.
LiveSpec == Init /\ [][BindNext]_vars /\ WF_vars(RunRetry)

\* A handler that keeps being registered anew for every defined callback.
NeedsNewHandler_Always(handler) == TRUE

\* handler === undefined
NeedsNewHandler(handler) == handler = 0

\* seq without its k-th element.
RemoveAt(seq, k) ==
  [j \in 1..(Len(seq) - 1) |-> IF j < k THEN seq[j] ELSE seq[j + 1]]

\* addOrUpdateEventListener(node, event, listener)
addOrUpdateEventListener(node, event, listener) ==
  LET handler == listenedEvents[node].events[event]
      registered == domListeners[node][event]
  IN /\ supplied' = [supplied EXCEPT ![node][event] = listener]
     /\ IF listener # Undefined
          THEN IF NeedsNewHandler(handler)
                 THEN /\ listenedEvents' =
                           [listenedEvents EXCEPT
                              ![node].has = TRUE,
                              ![node].events[event] = Len(registered) + 1]
                      /\ domListeners' =
                           [domListeners EXCEPT
                              ![node][event] =
                                 Append(registered, [handleEvent |-> listener])]
                 ELSE /\ listenedEvents' =
                           [listenedEvents EXCEPT ![node].has = TRUE]
                      /\ domListeners' =
                           [domListeners EXCEPT
                              ![node][event][handler].handleEvent = listener]
          ELSE IF handler # 0
                 THEN /\ listenedEvents' =
                           [listenedEvents EXCEPT
                              ![node].has = TRUE,
                              ![node].events[event] = 0]
                      /\ domListeners' =
                           [domListeners EXCEPT
                              ![node][event] = RemoveAt(registered, handler)]
                 ELSE /\ listenedEvents' =
                           [listenedEvents EXCEPT ![node].has = TRUE]
                      /\ UNCHANGED domListeners

\* setProperty(node, name, value, old, events)
SetProperty ==
  /\ \E node \in ReactNodes, name \in PropNames,
        value, old \in Callbacks \cup {Undefined} :
       IF name \in DOMAIN events
         THEN /\ IF value # old
                   THEN addOrUpdateEventListener(node, events[name], value)
                   ELSE UNCHANGED <<listenedEvents, domListeners, supplied>>
              /\ UNCHANGED properties
         ELSE /\ properties' = [properties EXCEPT ![node] = value]
              /\ UNCHANGED <<listenedEvents, domListeners, supplied>>
  /\ UNCHANGED invoked
  /\ UNCHANGED scrollVars

\* The element fires an event: every handler object registered for it has
\* its handleEvent called.
DispatchEvent ==
  /\ \E node \in ReactNodes, event \in EventNames :
       invoked' =
         [node |-> node, event |-> event,
          called |-> [k \in 1..Len(domListeners[node][event]) |->
                        domListeners[node][event][k].handleEvent]]
  /\ UNCHANGED <<listenedEvents, domListeners, properties, supplied>>
  /\ UNCHANGED scrollVars

\* The adapter alone, next to a directive that is never constructed.
ReactInit == Init /\ partType = "CHILD" /\ parentNode = Null

ReactNext == SetProperty \/ DispatchEvent

ReactSpec == ReactInit /\ [][ReactNext]_vars

\* The program with an engine that may also notify from inside update().
ReentrantNext ==
  \/ Construct
  \/ HostUpdate
  \/ RunRetry
  \/ HostUpdateReentrant
  \/ RunRetryReentrant
  \/ RangeChanged
  \/ SetParent

ReentrantSpec == Init /\ [][ReentrantNext]_vars

\* ------------------------------------------------------------------ C1
\* Number of 'rangeChanged' listeners registered on any element.
RECURSIVE SumListeners(_)
SumListeners(S) ==
  IF S = {} THEN 0
  ELSE LET n == CHOOSE x \in S : TRUE
       IN listeners[n] + SumListeners(S \ {n})

\* C1: the VirtualScroller is constructed at most once and exactly one
\* 'rangeChanged' listener exists, registered on the bound container when
\* the engine was constructed; before binding there is neither.
C1_EngineConstructedOnce ==
  /\ Len(engines) <= 1
  /\ SumListeners(Elements) = Len(engines)
  /\ scroller = Len(engines)
  /\ AlreadyBound =>
       /\ container \in Elements
       /\ listeners[container] = 1
       /\ engines[scroller].container = container

\* A retry ran after a host update had already bound the instance.
C1_Witness ==
  /\ scroller # 0
  /\ output.by = "retry"
  /\ output.returned = "render"
  /\ nUpdates = 2
  /\ hostFailed = 1

\* ------------------------------------------------------------------ C2
\* A step that is one update() call, by the host or by a retry: the only
\* steps that leave the part's parent alone and record such a call.
UpdateStep == output'.by \in {"host", "retry"} /\ parentNode' = parentNode

\* An update() attempt (host or retry) made while unbound with a parent
\* that is not an element.
FailedAttempt ==
  /\ UpdateStep
  /\ scroller = 0
  /\ ~(parentNode \in Elements)

\* C2: a failed attempt returns nothing, touches no engine and leaves
\* exactly one new retry, carrying its own part and configuration, at the
\* end of the queue; pending retries never outnumber the host-initiated
\* updates that failed to bind.
C2_OneRetryPerFailedAttempt ==
  /\ [][FailedAttempt =>
          /\ output'.returned = "nothing"
          /\ output'.out = <<>>
          /\ engines' = engines
          /\ scroller' = 0
          /\ LET queue == IF nUpdates' = nUpdates
                            THEN Tail(microtasks) ELSE microtasks
                 config == IF nUpdates' = nUpdates
                             THEN Head(microtasks).config ELSE output'.config
             IN microtasks' =
                  Append(queue, [part |-> ThePart, config |-> config])]_vars
  /\ [](Len(microtasks) <= hostFailed)

\* A retry failed again behind another pending retry and replaced itself.
C2_Witness ==
  /\ scroller = 0
  /\ output.by = "retry"
  /\ output.returned = "nothing"
  /\ hostFailed = 2
  /\ Len(microtasks) = 2
  /\ microtasks[1].config # microtasks[2].config

\* ------------------------------------------------------------------ C3
\* C3: when the first update() failed to bind and the parent eventually is
\* an element for good, the queued retry binds the instance without any
\* further host update, and the engine it constructs holds the retried
\* call's configuration.
C3_RetryEventuallyBinds ==
  /\ (<>[](parentNode \in Elements)) => [](hostFailed > 0 => <>(scroller # 0))
  /\ [][(UpdateStep /\ output'.by = "retry"
         /\ scroller = 0 /\ scroller' # 0) =>
          LET config == Head(microtasks).config
              e == engines'[scroller']
          IN /\ e.container = parentNode
             /\ e.items = (IF Has(config, "items") THEN config.items ELSE <<>>)
             /\ e.layout = ConfigLayout(config)
             /\ e.scrollTarget = ConfigScrollTarget(config, parentNode)
             /\ Truthy(Field(config, "scrollToIndex")) =>
                  e.scrollToIndex = config.scrollToIndex
             /\ items' = e.items
             /\ output'.config = config]_vars

\* The only host update failed and its retry bound the instance.
C3_Witness ==
  /\ scroller # 0
  /\ nUpdates = 1
  /\ hostFailed = 1
  /\ output.by = "retry"
  /\ output.config =
       [items |-> ABCDE, totalItems |-> 5, scrollToIndex |-> "sti1"]
  /\ engines[scroller].items = ABCDE

\* ------------------------------------------------------------------ C4
\* C4: once the instance is bound, no step unbinds it or replaces the
\* engine or the container, whatever the part's parent is by then.
C4_BoundIsTerminal ==
  [][scroller # 0 =>
       /\ scroller' = scroller
       /\ container' = container
       /\ Len(engines') = Len(engines)
       /\ engines'[scroller].container = engines[scroller].container
       /\ listeners' = listeners]_vars

\* A host update ran on the bound instance while the part's parent was no
\* element, and pushed its configuration to the same engine.
C4_Witness ==
  /\ scroller = 1
  /\ container = "el1"
  /\ output.by = "host"
  /\ output.returned = "render"
  /\ output.parent = Fragment
  /\ nUpdates = 2
  /\ hostFailed = 0

\* ------------------------------------------------------------------ C5
\* The outputs handed out: a returned render() value or a setValue() push.
Projected == output.returned \in {"render", "setValue"}

\* C5: with last < first the projection is empty whatever the items are;
\* until the first notification the range is (0, -1), so every output
\* produced before it is empty.
C5_EmptyRangeProjectsNothing ==
  /\ last < first =>
       /\ render(items, first, last, keyFunction, renderItem) = <<>>
       /\ output.out = <<>>
  /\ ~notified => first = 0 /\ last = -1 /\ output.out = <<>>

\* The listener stored the empty window (3, 1) over five items and pushed
\* its output.
C5_Witness ==
  /\ items = ABCDE
  /\ notified
  /\ first = 3
  /\ last = 1
  /\ output.returned = "setValue"
  /\ output.out = <<>>

\* ------------------------------------------------------------------ C6
\* C6: for a range inside the items, the output has last - first + 1
\* entries, entry k is items[first + k] keyed by keyFunction of that item.
C6_WindowProjection ==
  (Projected /\ 0 <= first /\ first <= last /\ last < Len(items)) =>
     /\ Len(output.out) = last - first + 1
     /\ \A k \in 0..(last - first) :
          /\ output.out[k + 1].item = items[first + k + 1]
          /\ output.out[k + 1].key = ApplyKey(keyFunction, items[first + k + 1])

\* The listener pushed the window 1..3 of five items under a caller's key
\* function.
C6_Witness ==
  /\ Projected
  /\ output.by = "listener"
  /\ first = 1
  /\ last = 3
  /\ items = ABCDE
  /\ keyFunction = "k1"
  /\ Len(output.out) = 3

\* ------------------------------------------------------------------ C7
\* C7: every entry of the output is a call renderItem(items[i], i) with i
\* the absolute index of the item in the items collection.
C7_RenderItemGetsAbsoluteIndex ==
  Projected =>
    \A k \in 1..Len(output.out) :
      /\ output.out[k].fn = renderItem
      /\ output.out[k].item = ItemAt(items, first + k - 1)
      /\ output.out[k].index = first + k - 1

\* ------------------------------------------------------------------ C8
\* The items of an output, in order.
ItemsOf(out) == [k \in 1..Len(out) |-> out[k].item]

\* C8: when the listener's push for (f, l) is followed by its push for
\* (f+1, l+1), every index of both windows keeps its key, one position
\* earlier in the new output; [a,b,c,d,e] projects [b,c,d] for (1,3) and
\* [c,d,e] for (2,4).
C8_KeysStableUnderSlide ==
  /\ [][(output.by = "listener" /\ output'.by = "listener"
         /\ 0 <= first /\ first <= last
         /\ first' = first + 1 /\ last' = last + 1) =>
          /\ Len(output'.out) = Len(output.out)
          /\ \A i \in (first + 1)..last :
               /\ output'.out[i - first].key = output.out[i - first + 1].key
               /\ output'.out[i - first].item = output.out[i - first + 1].item]_vars
  /\ [](output.by = "listener" /\ items = ABCDE =>
          /\ (first = 1 /\ last = 3) => ItemsOf(output.out) = <<"b", "c", "d">>
          /\ (first = 2 /\ last = 4) => ItemsOf(output.out) = <<"c", "d", "e">>)

\* The window over five items slid from (1, 3) to (2, 4).
C8_Witness ==
  /\ output.by = "listener"
  /\ output.slide
  /\ items = ABCDE
  /\ first = 2
  /\ last = 4
  /\ ItemsOf(output.out) = <<"c", "d", "e">>

\* ------------------------------------------------------------------ C9
\* The engine's scrollToIndex as the directive sees it (undefined before
\* an engine exists).
EngineScrollToIndex(s, engs) ==
  IF s = 0 THEN Undefined ELSE engs[s].scrollToIndex

\* C9: an update that pushes a configuration without scrollToIndex does not
\* write the engine's scrollToIndex, which keeps its value; every write
\* comes from an update whose configuration carries scrollToIndex.
C9_ScrollToIndexSticky ==
  [][(UpdateStep /\ output'.returned = "render") =>
       /\ ~Has(output'.config, "scrollToIndex") =>
            /\ ~output'.wroteScrollToIndex
            /\ EngineScrollToIndex(scroller', engines')
                 = EngineScrollToIndex(scroller, engines)
       /\ output'.wroteScrollToIndex =>
            /\ Has(output'.config, "scrollToIndex")
            /\ EngineScrollToIndex(scroller', engines')
                 = output'.config.scrollToIndex]_vars

\* The second update omitted scrollToIndex and the engine still holds the
\* target the first one requested.
C9_Witness ==
  /\ scroller # 0
  /\ nUpdates = 2
  /\ output.by = "host"
  /\ output.returned = "render"
  /\ ~Has(output.config, "scrollToIndex")
  /\ engines[scroller].scrollToIndex = "sti1"

\* ----------------------------------------------------------------- C10
\* C10: after an update pushed its configuration, the engine's totalItems
\* is the explicit totalItems when one is given (0 included), else the
\* length of the items, else 0.
C10_TotalItemsExplicitFirst ==
  output.returned = "render" =>
    engines[scroller].totalItems =
      IF Has(output.config, "totalItems") THEN output.config.totalItems
      ELSE IF Has(output.config, "items") THEN Len(output.config.items)
      ELSE 0

\* ----------------------------------------------------------------- C11
\* A step in which a 'rangeChanged' event reached the listener.
Delivered ==
  \/ notified' # notified
  \/ first' # first
  \/ last' # last
  \/ output'.by = "listener"

\* C11: every delivered notification stores exactly its (first, last) and
\* pushes one output through setValue(), projected from the range just
\* stored; one step per notification, so n notifications give n pushes in
\* the order of emission.
C11_NotificationStoresThenPushes ==
  [][Delivered =>
       /\ output'.by = "listener"
       /\ output'.sync.at = "event"
       /\ first' = output'.sync.first
       /\ last' = output'.sync.last
       /\ output'.returned = "setValue"
       /\ output'.out =
            render(items, output'.sync.first, output'.sync.last,
                   keyFunction, renderItem)
       /\ notified']_vars

\* Two notifications in a row, the second one {first: 2, last: 3}, each
\* pushed its own output.
C11_Witness ==
  /\ output.by = "listener"
  /\ output.slide
  /\ output.sync = [at |-> "event", first |-> 2, last |-> 3]
  /\ first = 2
  /\ last = 3
  /\ items = ABCDE
  /\ ItemsOf(output.out) = <<"c", "d">>

\* ----------------------------------------------------------------- C12
\* C12: first and last change only in a step of the listener; an update()
\* by the host or by a retry leaves them alone, whether it binds, fails or
\* replaces the items.
C12_RangeOnlyByNotification ==
  /\ [][(first' # first \/ last' # last) => output'.by = "listener"]_vars
  /\ [][UpdateStep => (first' = first /\ last' = last)]_vars

\* After the window (1, 3) was notified, a host update replaced the items
\* with the empty collection and the window is still (1, 3).
C12_Witness ==
  /\ notified
  /\ first = 1
  /\ last = 3
  /\ output.by = "host"
  /\ output.returned = "render"
  /\ output.config = EmptyConfig
  /\ items = <<>>

\* ----------------------------------------------------------------- C13
\* C13: constructing the directive on a part that is not a CHILD part
\* throws and leaves no instance: no engine, no listener, no retry, no
\* update ever; constructing it on a CHILD part never throws.
C13_ConstructorRejectsNonChild ==
  /\ partType # "CHILD" =>
       /\ instance \in {"none", "threw"}
       /\ engines = <<>>
       /\ scroller = 0
       /\ SumListeners(Elements) = 0
       /\ microtasks = <<>>
       /\ nUpdates = 0
       /\ output.by = "none"
  /\ partType = "CHILD" => instance \in {"none", "alive"}

\* The constructor ran on an attribute part and threw.
C13_Witness == partType = "ATTRIBUTE" /\ instance = "threw"

\* ----------------------------------------------------------------- C14
\* A step in which render(config) ran: an update() that returned output.
Rendered == UpdateStep /\ output'.returned = "render"

\* C14: renderItem and keyFunction change only when an update() that
\* renders supplies them, and then to the supplied function; an update()
\* that omits one and every notification keep the function in use, and
\* every output is rendered and keyed with the functions held.
C14_RenderFunctionsSticky ==
  /\ [][Rendered =>
         /\ renderItem' = IF Has(output'.config, "renderItem")
                            THEN output'.config.renderItem ELSE renderItem
         /\ keyFunction' = IF Has(output'.config, "keyFunction")
                             THEN output'.config.keyFunction ELSE keyFunction
       ]_vars
  /\ [][(~Rendered) =>
         (renderItem' = renderItem /\ keyFunction' = keyFunction)]_vars
  /\ [](Projected =>
          \A k \in 1..Len(output.out) :
            /\ output.out[k].fn = renderItem
            /\ output.out[k].key = ApplyKey(keyFunction, output.out[k].item))
  /\ [](nUpdates = 0 =>
          renderItem = defaultRenderItem /\ keyFunction = defaultKeyFunction)

\* After an update supplied r1 and k1, a later update omitted both and a
\* notification projected its five items with r1 and k1.
C14_Witness ==
  /\ output.by = "listener"
  /\ items = ABCDE
  /\ renderItem = "r1"
  /\ keyFunction = "k1"
  /\ first = 0
  /\ last = 1
  /\ output.out[1].fn = "r1"
  /\ output.out[2].key = "kb"

\* ----------------------------------------------------------------- C15
\* C15: after every update() that pushed its configuration, the engine's
\* items, layout and scrollTarget are those of that configuration alone
\* (the empty sequence, null and the container when omitted), and
\* this.items is the engine's items.
C15_ItemsLayoutTargetOverwritten ==
  output.returned = "render" =>
    LET e == engines[scroller]
        config == output.config
    IN /\ e.items = (IF Has(config, "items") THEN config.items ELSE <<>>)
       /\ e.layout = (IF Has(config, "layout") THEN config.layout ELSE Null)
       /\ e.scrollTarget =
            (IF Has(config, "scrollTarget") THEN config.scrollTarget
             ELSE container)
       /\ items = e.items

\* The update that supplied r1 also set layout L1, scrollTarget window and
\* three items; a later update with the empty configuration reset all three.
C15_Witness ==
  /\ output.returned = "render"
  /\ output.config = EmptyConfig
  /\ renderItem = "r1"
  /\ engines[scroller].items = <<>>
  /\ engines[scroller].layout = Null
  /\ engines[scroller].scrollTarget = "el1"

\* ----------------------------------------------------------------- C16
\* C16: when the engine notified from inside update(), the listener pushed
\* a projection over the notified range, and update() returned the
\* projection of its own configuration's items over that range with the
\* functions it left in place; a notification after update() returned
\* pushes the projection of the held items over its range.
C16_ReentrantNotification ==
  /\ (output.by \in {"host", "retry"} /\ output.sync.at \in SyncPoints) =>
       /\ output.returned = "render"
       /\ first = output.sync.first
       /\ last = output.sync.last
       /\ Len(output.pushed) = Len(itemsToRender(<<>>, first, last))
       /\ Has(output.config, "renderItem") =>
            renderItem = output.config.renderItem
       /\ Has(output.config, "keyFunction") =>
            keyFunction = output.config.keyFunction
       /\ output.out =
            render(IF Has(output.config, "items")
                     THEN output.config.items ELSE <<>>,
                   output.sync.first, output.sync.last,
                   keyFunction, renderItem)
  /\ output.by = "listener" =>
       /\ first = output.sync.first
       /\ last = output.sync.last
       /\ items = engines[scroller].items
       /\ output.out = render(items, first, last, keyFunction, renderItem)

\* The engine notified (1, 2) from its items setter while a bound instance
\* holding five items was updated with three items, r1 and k1: the listener
\* pushed the old items with the old functions, update() returned the new.
C16_Witness ==
  /\ output.by = "host"
  /\ output.sync = [at |-> "items", first |-> 1, last |-> 2]
  /\ Has(output.config, "renderItem")
  /\ output.config.items = ABC
  /\ nUpdates = 2
  /\ ItemsOf(output.pushed) = <<"b", "c">>
  /\ output.pushed[1].fn = defaultRenderItem
  /\ output.out[1].fn = "r1"
  /\ output.out[2].key = "kc"

\* ----------------------------------------------------------------- C17
\* C17: a retry that runs right after a host update() bound the instance
\* was scheduled by an older, failed update(); it leaves the engine's
\* items, totalItems, layout and scrollTarget and this.items as that newer
\* update() set them.
C17_LatestConfigurationWins ==
  [][(/\ output.by = "host"
      /\ output.returned = "render"
      /\ output'.by = "retry"
      /\ parentNode' = parentNode)
       => /\ items' = items
          /\ engines'[scroller'].items = engines[scroller].items
          /\ engines'[scroller'].totalItems = engines[scroller].totalItems
          /\ engines'[scroller'].layout = engines[scroller].layout
          /\ engines'[scroller'].scrollTarget = engines[scroller].scrollTarget
    ]_vars

\* ----------------------------------------------------------------- C18
\* C18: setValue() is called only by the 'rangeChanged' listener, which
\* exists only on a bound instance: what an update() renders, called by
\* the host or by a retry, is returned and never pushed, and nothing is
\* pushed before binding.
C18_SetValueOnlyByListener ==
  /\ output.returned = "setValue" => (output.by = "listener" /\ scroller # 0)
  /\ output.by \in {"host", "retry"} =>
       /\ output.returned \in {"render", "nothing"}
       /\ output.pushed = <<>>
  /\ scroller = 0 => (~notified /\ output.returned \in {"none", "nothing"})

\* A retry bound the instance and rendered; its output went nowhere.
C18_Witness ==
  /\ output.by = "retry"
  /\ output.returned = "render"
  /\ scroller # 0
  /\ hostFailed = 1
  /\ ~notified

\* ----------------------------------------------------------------- C19
\* C19: every entry of a projection is an item held at an index below
\* items.length.
C19_ProjectionWithinItems ==
  Projected =>
    \A k \in 1..Len(output.out) :
      /\ first + k - 1 < Len(items)
      /\ output.out[k].item = items[first + k]

\* ----------------------------------------------------------------- C20
\* C20: for every node and event at most one listener is registered, the
\* map tracks a handler exactly when one is registered, that handler holds
\* the callback last passed to addOrUpdateEventListener, none is
\* registered once undefined was passed, and a dispatched event calls
\* exactly that callback.
C20_OneListenerPerEvent ==
  /\ [](\A n \in ReactNodes, e \in EventNames :
          /\ Len(domListeners[n][e]) <= 1
          /\ listenedEvents[n].events[e] # 0 <=> Len(domListeners[n][e]) = 1
          /\ listenedEvents[n].events[e] # 0 => listenedEvents[n].has
          /\ supplied[n][e] = Undefined <=> domListeners[n][e] = <<>>
          /\ domListeners[n][e] # <<>> =>
               domListeners[n][e][1].handleEvent = supplied[n][e])
  /\ [][invoked' # invoked =>
          invoked'.called =
            IF supplied[invoked'.node][invoked'.event] = Undefined
              THEN <<>>
              ELSE <<supplied[invoked'.node][invoked'.event]>>]_vars

\* n1 fired e1 into cb2, the callback was then swapped to cb1 inside the
\* one tracked handler, and the listener of e2 was removed again.
C20_Witness ==
  /\ invoked = [node |-> "n1", event |-> "e1", called |-> <<"cb2">>]
  /\ listenedEvents["n1"].events["e1"] = 1
  /\ domListeners["n1"]["e1"] = <<[handleEvent |-> "cb1"]>>
  /\ listenedEvents["n2"].has
  /\ domListeners["n2"]["e2"] = <<>>
  /\ properties["n1"] = "cb1"

====
